---- MODULE Spec2Model ----
\* A model of aap.py: the regex lexer, the fused recursive-descent
\* parser/evaluator (class Interpreter) and the repl() driver that carries
\* env / declared_vars / functions from one input unit to the next.
\*
\* Text is a sequence of one-character strings.  A Python call stack of
\* nested Interpreter objects is the sequence `stack`; the last element is the
\* Interpreter that is currently running parse().
EXTENDS Integers, Sequences, FiniteSets, TLC

VARIABLES env, declared_vars, functions, stack, output, errors, lines, user_input, exited,
          lexer

vars ==
  <<env, declared_vars, functions, stack, output, errors, lines, user_input, exited, lexer>>

\* ---------------------------------------------------------------------------
\* Bounds
\* ---------------------------------------------------------------------------
\* number of lines of input the driver reads in one run
MaxLines == 2
\* length of the texts given to a Lexer on its own
MaxTextLen == 3

\* ---------------------------------------------------------------------------
\* The Python call stack
\* ---------------------------------------------------------------------------
\* sys.getrecursionlimit() of CPython: the largest number of frames the call
\* stack can hold
RecursionLimit == 1000
\* the depth of the frame of repl() when aap.py is run as a script: the module
\* and repl()
ReplDepth == 2

\* a call that would make the call stack d frames deep raises RecursionError
TooDeep(d) == d > RecursionLimit

\* ---------------------------------------------------------------------------
\* Characters
\* ---------------------------------------------------------------------------
\* printable ASCII in code-point order, 32..126; code point 96 is written as a
\* name, it is in no text of the model
Ascii ==
  <<" ", "!", "\"", "#", "$", "%", "&", "'", "(", ")", "*", "+", ",", "-", ".", "/",
    "0", "1", "2", "3", "4", "5", "6", "7", "8", "9", ":", ";", "<", "=", ">", "?",
    "@", "A", "B", "C", "D", "E", "F", "G", "H", "I", "J", "K", "L", "M", "N", "O",
    "P", "Q", "R", "S", "T", "U", "V", "W", "X", "Y", "Z", "[", "\\", "]", "^", "_",
    "GRAVE", "a", "b", "c", "d", "e", "f", "g", "h", "i", "j", "k", "l", "m", "n", "o",
    "p", "q", "r", "s", "t", "u", "v", "w", "x", "y", "z", "{", "|", "}", "~">>

\* code point of a character (ord in Python)
Ord(c) ==
  IF c = "\t" THEN 9
  ELSE IF c = "\n" THEN 10
  ELSE 31 + (CHOOSE i \in 1..Len(Ascii) : Ascii[i] = c)

\* character of a code point in 32..126 (chr in Python)
Chr(n) == Ascii[n - 31]

IsDigit(c) == Ord(c) >= 48 /\ Ord(c) <= 57
IsUpper(c) == Ord(c) >= 65 /\ Ord(c) <= 90
IsLower(c) == Ord(c) >= 97 /\ Ord(c) <= 122
IsIdStart(c) == IsUpper(c) \/ IsLower(c) \/ c = "_"
IsIdChar(c) == IsIdStart(c) \/ IsDigit(c)

RECURSIVE Join(_)
\* the TLA+ string spelled by a sequence of characters
Join(cs) == IF cs = <<>> THEN "" ELSE Head(cs) \o Join(Tail(cs))

RECURSIVE upper(_)
\* str.upper()
upper(cs) ==
  IF cs = <<>> THEN <<>>
  ELSE <<IF IsLower(Head(cs)) THEN Chr(Ord(Head(cs)) - 32) ELSE Head(cs)>> \o upper(Tail(cs))

RECURSIVE int(_, _)
\* int(value) on a run of decimal digits; acc is the value of the digits read
int(cs, acc) ==
  IF cs = <<>> THEN acc ELSE int(Tail(cs), 10 * acc + (Ord(Head(cs)) - 48))

\* ---------------------------------------------------------------------------
\* Values, tokens, exceptions
\* ---------------------------------------------------------------------------
\* A Python value: k is its type, n the number of an int or bool, s the
\* characters of a str.
IntV(n) == [k |-> "int", n |-> n, s |-> <<>>]
StrV(s) == [k |-> "str", n |-> 0, s |-> s]
BoolV(b) == [k |-> "bool", n |-> IF b THEN 1 ELSE 0, s |-> <<>>]
NoneV == [k |-> "none", n |-> 0, s |-> <<>>]

Token(type_, value) == [type |-> type_, value |-> value]
NoToken == Token("", NoneV)

\* An exception: its Python class, which raise statement made it (msg), the
\* token kind a consume() expected, the token it is about, and the value a
\* ReturnValue carries.
Exc(cls, msg, expected, tok, value) ==
  [cls |-> cls, msg |-> msg, expected |-> expected, tok |-> tok, value |-> value]
NoExc == Exc("", "", "", NoToken, NoneV)
IndexError == Exc("IndexError", "list index out of range", "", NoToken, NoneV)
RecursionError == Exc("RecursionError", "maximum recursion depth exceeded", "", NoToken, NoneV)
ReturnValue(value) == Exc("ReturnValue", "", "", NoToken, value)

EmptyMap == [x \in {} |-> NoneV]
Put(m, key, v) == [x \in (DOMAIN m) \cup {key} |-> IF x = key THEN v ELSE m[x]]

\* ---------------------------------------------------------------------------
\* Lexer
\* ---------------------------------------------------------------------------
keywords ==
  { <<"i","f">>, <<"e","l","s","e">>, <<"w","h","i","l","e">>, <<"p","r","i","n","t">>,
    <<"f","u","n","c","t","i","o","n">>, <<"r","e","t","u","r","n">>, <<"a","n","d">>,
    <<"o","r">>, <<"n","o","t">>, <<"c","r","e","a","t","e">> }

RECURSIVE RunLen(_, _, _)
\* length of the longest run of characters satisfying a class, starting at
\* 1-based index i: 1 digits, 2 identifier characters, 3 blanks
RunLen(text, i, class) ==
  IF i > Len(text) THEN 0
  ELSE IF (class = 1 /\ IsDigit(text[i]))
          \/ (class = 2 /\ IsIdChar(text[i]))
          \/ (class = 3 /\ text[i] \in {" ", "\t"})
       THEN 1 + RunLen(text, i + 1, class)
       ELSE 0

\* length of the match of "[^"]*" at i, 0 when there is none
StringLen(text, i) ==
  IF text[i] = "\"" /\ \E j \in (i + 1)..Len(text) : text[j] = "\""
  THEN (CHOOSE j \in (i + 1)..Len(text) :
          text[j] = "\"" /\ \A m \in (i + 1)..(j - 1) : text[m] # "\"") - i + 1
  ELSE 0

\* length of the match of ==|!=|<=|>=|<|> at i, 0 when there is none
CompareLen(text, i) ==
  LET two == i + 1 <= Len(text) /\ text[i + 1] = "=" IN
  IF text[i] = "=" /\ two THEN 2
  ELSE IF text[i] = "!" /\ two THEN 2
  ELSE IF text[i] = "<" /\ two THEN 2
  ELSE IF text[i] = ">" /\ two THEN 2
  ELSE IF text[i] = "<" THEN 1
  ELSE IF text[i] = ">" THEN 1
  ELSE 0

\* token_specification with the COMPARE pattern moved before ASSIGN
token_specification_CompareFirst(text, i) ==
  LET c == text[i] IN
  IF IsDigit(c) THEN [kind |-> "NUMBER", len |-> RunLen(text, i, 1)]
  ELSE IF StringLen(text, i) > 0 THEN [kind |-> "STRING", len |-> StringLen(text, i)]
  ELSE IF IsIdStart(c) THEN [kind |-> "ID", len |-> RunLen(text, i, 2)]
  ELSE IF CompareLen(text, i) > 0 THEN [kind |-> "COMPARE", len |-> CompareLen(text, i)]
  ELSE IF c = "=" THEN [kind |-> "ASSIGN", len |-> 1]
  ELSE IF c = ";" THEN [kind |-> "END", len |-> 1]
  ELSE IF c \in {"+", "-", "*", "/", "%"} THEN [kind |-> "OP", len |-> 1]
  ELSE IF c = "(" THEN [kind |-> "LPAREN", len |-> 1]
  ELSE IF c = ")" THEN [kind |-> "RPAREN", len |-> 1]
  ELSE IF c = "{" THEN [kind |-> "LBRACE", len |-> 1]
  ELSE IF c = "}" THEN [kind |-> "RBRACE", len |-> 1]
  ELSE IF c = "\n" THEN [kind |-> "NEWLINE", len |-> 1]
  ELSE IF c \in {" ", "\t"} THEN [kind |-> "SKIP", len |-> RunLen(text, i, 3)]
  ELSE [kind |-> "MISMATCH", len |-> 1]

\* The alternation built from token_specification, tried at 1-based index i:
\* the first pattern of the list that matches wins.
token_specification(text, i) ==
  LET c == text[i] IN
  IF IsDigit(c) THEN [kind |-> "NUMBER", len |-> RunLen(text, i, 1)]
  ELSE IF StringLen(text, i) > 0 THEN [kind |-> "STRING", len |-> StringLen(text, i)]
  ELSE IF IsIdStart(c) THEN [kind |-> "ID", len |-> RunLen(text, i, 2)]
  ELSE IF c = "=" THEN [kind |-> "ASSIGN", len |-> 1]
  ELSE IF c = ";" THEN [kind |-> "END", len |-> 1]
  ELSE IF c \in {"+", "-", "*", "/", "%"} THEN [kind |-> "OP", len |-> 1]
  ELSE IF CompareLen(text, i) > 0 THEN [kind |-> "COMPARE", len |-> CompareLen(text, i)]
  ELSE IF c = "(" THEN [kind |-> "LPAREN", len |-> 1]
  ELSE IF c = ")" THEN [kind |-> "RPAREN", len |-> 1]
  ELSE IF c = "{" THEN [kind |-> "LBRACE", len |-> 1]
  ELSE IF c = "}" THEN [kind |-> "RBRACE", len |-> 1]
  ELSE IF c = "\n" THEN [kind |-> "NEWLINE", len |-> 1]
  ELSE IF c \in {" ", "\t"} THEN [kind |-> "SKIP", len |-> RunLen(text, i, 3)]
  ELSE [kind |-> "MISMATCH", len |-> 1]

\* Emit without the `kind = value.upper()` of a keyword
Emit_NoKeywords(kind, value) ==
  IF kind = "NUMBER" THEN <<Token("NUMBER", IntV(int(value, 0)))>>
  ELSE IF kind = "STRING" THEN <<Token("STRING", StrV(SubSeq(value, 2, Len(value) - 1)))>>
  ELSE IF kind \in {"SKIP", "NEWLINE"} THEN <<>>
  ELSE <<Token(kind, StrV(value))>>

\* the body of the finditer loop of tokenize for one match: the tokens it
\* appends (none for SKIP and NEWLINE), where the match is not a MISMATCH
Emit(kind, value) ==
  IF kind = "NUMBER" THEN <<Token("NUMBER", IntV(int(value, 0)))>>
  ELSE IF kind = "STRING" THEN <<Token("STRING", StrV(SubSeq(value, 2, Len(value) - 1)))>>
  ELSE IF kind = "ID" /\ value \in keywords THEN <<Token(Join(upper(value)), StrV(value))>>
  ELSE IF kind \in {"SKIP", "NEWLINE"} THEN <<>>
  ELSE <<Token(kind, StrV(value))>>

\* One turn of the finditer loop of tokenize: lx.i is the 1-based index the
\* next match starts at, lx.tokens is self.tokens, lx.exc the exception raised.
\* The turn does nothing once the text is exhausted or an exception is raised.
LexStep(text, lx) ==
  IF lx.exc # NoExc \/ lx.i > Len(text) THEN lx
  ELSE LET mo == token_specification(text, lx.i) IN
       IF mo.kind = "MISMATCH"
       THEN [i |-> lx.i, tokens |-> lx.tokens,
             exc |-> Exc("SyntaxError", "Unexpected character", "",
                         Token("MISMATCH", StrV(<<text[lx.i]>>)), NoneV)]
       ELSE [i |-> lx.i + mo.len,
             tokens |-> lx.tokens \o Emit(mo.kind, SubSeq(text, lx.i, lx.i + mo.len - 1)),
             exc |-> NoExc]

RECURSIVE LexSteps(_, _, _)
\* n turns of the finditer loop in a row, n >= 1.  The state after the first
\* half of the turns is bound through a one-element set, which makes it a
\* value that is computed once.
LexSteps(text, lx, n) ==
  IF n = 1 THEN LexStep(text, lx)
  ELSE CHOOSE r \in {LexSteps(text, half, n - (n \div 2)) : half \in {LexSteps(text, lx, n \div 2)}} : TRUE

\* Lexer(text).tokenize(): the token list, or the exception it raises.  Every
\* match is at least one character long, so Len(text) turns exhaust the text.
tokenize(text) ==
  LET lx == IF text = <<>> THEN [i |-> 1, tokens |-> <<>>, exc |-> NoExc]
            ELSE LexSteps(text, [i |-> 1, tokens |-> <<>>, exc |-> NoExc], Len(text))
  IN
  IF lx.exc # NoExc THEN [exc |-> lx.exc, tokens |-> <<>>]
  ELSE [exc |-> NoExc, tokens |-> Append(lx.tokens, Token("EOF", StrV(<<>>)))]

\* A Lexer object: its text, whether tokenize() has been called, and what the
\* call raised or returned.
Lexer(text) == [text |-> text, ran |-> FALSE, exc |-> NoExc, tokens |-> <<>>]

\* ---------------------------------------------------------------------------
\* Interpreter: cursor
\* ---------------------------------------------------------------------------
\* An Interpreter object.  wait, cond and body are the locals of the statement
\* method that is suspended in a nested Interpreter call: wait is "" when the
\* object is running its own parse loop, "if" / "call" / "while" when it is
\* inside if_statement / function_call / while_statement.
Interpreter(tokens) ==
  [tokens |-> tokens, pos |-> 0, env |-> EmptyMap, declared_vars |-> {},
   functions |-> EmptyMap, wait |-> "", cond |-> <<>>, body |-> <<>>]

\* self.tokens[self.pos] is defined
InRange(self) == self.pos < Len(self.tokens)

\* self.current(), where InRange(self)
current(self) == self.tokens[self.pos + 1]

\* self.peek()
peek(self) ==
  IF self.pos + 1 < Len(self.tokens) THEN self.tokens[self.pos + 2] ELSE Token("EOF", StrV(<<>>))

\* the kind of the current token, "" when reading it raises IndexError
curtype(self) == IF InRange(self) THEN current(self).type ELSE ""

\* In what follows d is the depth, on the Python call stack, of the frame of
\* the method an operator models: a method running at depth d calls its
\* callees into depth d + 1.

\* what `raise X(...)` raises when building the exception takes the call stack
\* to depth d
Raise(exc, d) == IF TooDeep(d) THEN RecursionError ELSE exc

\* how many frames above the frame that formats it f"{token}" goes: str(),
\* Token.__repr__ and, in it, the formatting of self.value, which takes one
\* more for an int than for a str
ReprDepth(token) == IF token.value.k = "int" THEN 4 ELSE 3

\* the exception self.current() raises, NoExc when it returns current(self)
current_exc(self, d) ==
  IF TooDeep(d) THEN RecursionError
  ELSE IF ~InRange(self) THEN IndexError
  ELSE NoExc

\* the exception self.peek() raises, NoExc when it returns peek(self);
\* Token('EOF', '') runs Token.__init__ two frames above peek()
peek_exc(self, d) ==
  IF TooDeep(d) THEN RecursionError
  ELSE IF self.pos + 1 < Len(self.tokens) THEN NoExc
  ELSE Raise(NoExc, d + 2)

\* self.consume(expected_type); expected_type = "" is consume()
consume(self, expected_type, d) ==
  IF TooDeep(d) THEN [self |-> self, token |-> NoToken, exc |-> RecursionError]
  ELSE IF ~InRange(self) THEN [self |-> self, token |-> NoToken, exc |-> IndexError]
  ELSE IF expected_type # "" /\ current(self).type # expected_type
  THEN [self |-> self, token |-> NoToken,
        exc |-> Raise(Exc("SyntaxError", "Expected", expected_type, current(self), NoneV),
                      d + 1)]
  ELSE [self |-> [self EXCEPT !.pos = @ + 1], token |-> current(self), exc |-> NoExc]

\* ---------------------------------------------------------------------------
\* Interpreter: expressions
\* ---------------------------------------------------------------------------
\* bool(v) in Python
Truthy(v) ==
  IF v.k = "str" THEN v.s # <<>>
  ELSE IF v.k = "none" THEN FALSE
  ELSE v.n # 0

IsNum(v) == v.k \in {"int", "bool"}

RECURSIVE StrLess(_, _)
\* a < b on two str values: lexicographic by code point
StrLess(a, b) ==
  IF b = <<>> THEN FALSE
  ELSE IF a = <<>> THEN TRUE
  ELSE IF Head(a) # Head(b) THEN Ord(Head(a)) < Ord(Head(b))
  ELSE StrLess(Tail(a), Tail(b))

\* left == right in Python
PyEq(left, right) ==
  IF IsNum(left) /\ IsNum(right) THEN left.n = right.n
  ELSE IF left.k = "str" /\ right.k = "str" THEN left.s = right.s
  ELSE left.k = "none" /\ right.k = "none"

\* left < right in Python, where Ordered(left, right)
PyLess(left, right) ==
  IF IsNum(left) THEN left.n < right.n ELSE StrLess(left.s, right.s)

\* <, >, <=, >= are defined between left and right
Ordered(left, right) ==
  (IsNum(left) /\ IsNum(right)) \/ (left.k = "str" /\ right.k = "str")

\* the if/elif chain of compare_expr on one operator
Comparison(op, left, right) ==
  IF op = <<"=", "=">> THEN [val |-> BoolV(PyEq(left, right)), exc |-> NoExc]
  ELSE IF op = <<"!", "=">> THEN [val |-> BoolV(~PyEq(left, right)), exc |-> NoExc]
  ELSE IF op \in {<<"<">>, <<">">>, <<"<", "=">>, <<">", "=">>} THEN
    IF ~Ordered(left, right)
    THEN [val |-> NoneV, exc |-> Exc("TypeError", "not supported", "", NoToken, NoneV)]
    ELSE IF op = <<"<">> THEN [val |-> BoolV(PyLess(left, right)), exc |-> NoExc]
    ELSE IF op = <<">">> THEN [val |-> BoolV(PyLess(right, left)), exc |-> NoExc]
    ELSE IF op = <<"<", "=">> THEN [val |-> BoolV(~PyLess(right, left)), exc |-> NoExc]
    ELSE [val |-> BoolV(~PyLess(left, right)), exc |-> NoExc]
  ELSE [val |-> left, exc |-> NoExc]

RECURSIVE expr(_, _), expr_loop(_, _), compare_expr(_, _), compare_loop(_, _), term(_, _)

\* the end of the LPAREN branch of term(): e is what self.expr() gave, then
\* self.consume('RPAREN')
term_paren(e, d) ==
  IF e.exc # NoExc THEN e
  ELSE LET c == consume(e.self, "RPAREN", d + 1) IN
       [self |-> c.self, val |-> e.val, exc |-> c.exc]

\* self.term(): the Interpreter after it, the value, the exception raised.
\* Once its self.current() has returned, the calls of consume() and of
\* Exception(...), one frame above term() as well, have room too.
term(self, d) ==
  IF current_exc(self, d + 1) # NoExc
  THEN [self |-> self, val |-> NoneV, exc |-> current_exc(self, d + 1)]
  ELSE
    LET token == current(self)
        adv == [self EXCEPT !.pos = @ + 1]
    IN
    IF token.type \in {"NUMBER", "STRING"} THEN [self |-> adv, val |-> token.value, exc |-> NoExc]
    ELSE IF token.type = "ID" THEN
      IF token.value.s \notin self.declared_vars
      THEN [self |-> adv, val |-> NoneV,
            exc |-> Exc("Exception", "not declared", "", token, NoneV)]
      ELSE [self |-> adv,
            val |-> IF token.value.s \in DOMAIN self.env THEN self.env[token.value.s] ELSE IntV(0),
            exc |-> NoExc]
    ELSE IF token.type = "LPAREN" THEN term_paren(expr(adv, d + 1), d)
    ELSE [self |-> self, val |-> NoneV,
          exc |-> Raise(Exc("SyntaxError", "Unexpected token in term", "", token, NoneV),
                        d + ReprDepth(token))]

\* one turn of the while loop of compare_expr: left is the value folded so
\* far, op the operator consumed, r what self.term() gave for the right side
compare_fold(op, left, r) ==
  IF r.exc # NoExc THEN r
  ELSE LET c == Comparison(op, left, r.val) IN
       [self |-> r.self, val |-> c.val, exc |-> c.exc]

\* the while loop of compare_expr; l holds the cursor and the value folded so
\* far (first what the leading self.term() gave: the call stack has room for
\* the loop's self.current() and self.consume() when it had room for that)
compare_loop(l, d) ==
  IF l.exc # NoExc THEN l
  ELSE IF ~InRange(l.self) THEN [self |-> l.self, val |-> NoneV, exc |-> IndexError]
  ELSE IF current(l.self).type # "COMPARE" THEN l
  ELSE compare_loop(compare_fold(current(l.self).value.s, l.val,
                                 term([l.self EXCEPT !.pos = @ + 1], d + 1)), d)

\* self.compare_expr()
compare_expr(self, d) == compare_loop(term(self, d + 1), d)

\* expr_fold where the right operand counts only when the left one does not
\* already decide the result
expr_fold_ShortCircuit(op, result, r) ==
  IF (op = "AND" /\ ~Truthy(result)) \/ (op = "OR" /\ Truthy(result))
  THEN [self |-> r.self, val |-> result, exc |-> NoExc]
  ELSE IF r.exc # NoExc THEN r
  ELSE [self |-> r.self, val |-> r.val, exc |-> NoExc]

\* one turn of the while loop of expr: result is the value folded so far, op
\* the kind of the operator consumed, r what self.compare_expr() gave
expr_fold(op, result, r) ==
  IF r.exc # NoExc THEN r
  ELSE IF op = "AND"
  THEN [self |-> r.self, val |-> IF Truthy(result) THEN r.val ELSE result, exc |-> NoExc]
  ELSE [self |-> r.self, val |-> IF Truthy(result) THEN result ELSE r.val, exc |-> NoExc]

\* the while loop of expr; l holds the cursor and the value folded so far
\* (first what the leading self.compare_expr() gave)
expr_loop(l, d) ==
  IF l.exc # NoExc THEN l
  ELSE IF ~InRange(l.self) THEN [self |-> l.self, val |-> NoneV, exc |-> IndexError]
  ELSE IF current(l.self).type \notin {"AND", "OR"} THEN l
  ELSE expr_loop(expr_fold(current(l.self).type, l.val,
                           compare_expr([l.self EXCEPT !.pos = @ + 1], d + 1)), d)

\* self.expr()
expr(self, d) == expr_loop(compare_expr(self, d + 1), d)

\* self.evaluate_with_env(env) on a fresh Interpreter
evaluate_with_env(self, env_, d) == expr([self EXCEPT !.env = env_, !.pos = 0], d + 1)

\* execute_with_env without its `self.declared_vars = set(env.keys())`
execute_with_env_NoDeclared(self, env_, functions_) ==
  [self EXCEPT !.env = env_, !.functions = functions_, !.pos = 0]

\* the Interpreter that execute_with_env(env, functions) leaves ready to parse
execute_with_env(self, env_, functions_) ==
  [self EXCEPT !.env = env_, !.declared_vars = DOMAIN env_, !.functions = functions_, !.pos = 0]

\* ---------------------------------------------------------------------------
\* Interpreter: statements
\* ---------------------------------------------------------------------------
\* What one statement method does to the Interpreter that runs it: the object
\* afterwards, the exception it raised (NoExc when none), the lines it
\* printed, and the nested Interpreter it has just started (push is empty or
\* holds that one object).
Done(self, out) == [self |-> self, exc |-> NoExc, out |-> out, push |-> <<>>]
Raised(self, exc, out) == [self |-> self, exc |-> exc, out |-> out, push |-> <<>>]
Nested(self, child) == [self |-> self, exc |-> NoExc, out |-> <<>>, push |-> <<child>>]

\* the loop `while self.current().type != type_: append; self.pos += 1`
\* followed by self.consume(type_), in a method running at depth d: the tokens
\* collected and the cursor after
CollectUntil(self, type_, d) ==
  IF TooDeep(d + 1) THEN [self |-> self, block |-> <<>>, exc |-> RecursionError] ELSE
  LET idx == {i \in (self.pos + 1)..Len(self.tokens) : self.tokens[i].type = type_} IN
  IF idx = {}
  THEN [self |-> [self EXCEPT !.pos = IF @ > Len(self.tokens) THEN @ ELSE Len(self.tokens)],
        block |-> <<>>, exc |-> IndexError]
  ELSE LET j == CHOOSE i \in idx : \A m \in idx : i <= m IN
       [self |-> [self EXCEPT !.pos = j], block |-> SubSeq(self.tokens, self.pos + 1, j - 1),
        exc |-> NoExc]

\* self.collect_block()
collect_block(self, d) == CollectUntil(self, "RBRACE", d)

RECURSIVE Digits(_)
\* the decimal digits of a natural number
Digits(n) == IF n < 10 THEN <<Chr(48 + n)>> ELSE Append(Digits(n \div 10), Chr(48 + (n % 10)))

\* the line print(val) writes
str(val) ==
  IF val.k = "str" THEN val.s
  ELSE IF val.k = "bool" THEN (IF val.n = 1 THEN <<"T", "r", "u", "e">> ELSE <<"F", "a", "l", "s", "e">>)
  ELSE IF val.k = "none" THEN <<"N", "o", "n", "e">>
  ELSE IF val.n < 0 THEN <<"-">> \o Digits(0 - val.n)
  ELSE Digits(val.n)

\* declaration() without its `if var in self.declared_vars` check
declaration_NoCheck(self, d) ==
  LET c1 == consume(self, "CREATE", d + 1) IN
  IF c1.exc # NoExc THEN Raised(c1.self, c1.exc, <<>>) ELSE
  LET c2 == consume(c1.self, "ID", d + 1) IN
  IF c2.exc # NoExc THEN Raised(c2.self, c2.exc, <<>>) ELSE
  LET var == c2.token.value.s IN
  LET c3 == consume(c2.self, "ASSIGN", d + 1) IN
  IF c3.exc # NoExc THEN Raised(c3.self, c3.exc, <<>>) ELSE
  LET e == expr(c3.self, d + 1) IN
  IF e.exc # NoExc THEN Raised(e.self, e.exc, <<>>) ELSE
  LET stored == [e.self EXCEPT !.env = Put(@, var, e.val), !.declared_vars = @ \cup {var}]
      c4 == consume(stored, "END", d + 1)
  IN
  IF c4.exc # NoExc THEN Raised(c4.self, c4.exc, <<>>) ELSE Done(c4.self, <<>>)

\* declaration() with self.declared_vars.add(var) moved before the
\* evaluation of the right-hand side
declaration_DeclareFirst(self, d) ==
  LET c1 == consume(self, "CREATE", d + 1) IN
  IF c1.exc # NoExc THEN Raised(c1.self, c1.exc, <<>>) ELSE
  LET c2 == consume(c1.self, "ID", d + 1) IN
  IF c2.exc # NoExc THEN Raised(c2.self, c2.exc, <<>>) ELSE
  LET var == c2.token.value.s IN
  IF var \in self.declared_vars
  THEN Raised(c2.self, Exc("Exception", "already declared", "", c2.token, NoneV), <<>>) ELSE
  LET c3 == consume([c2.self EXCEPT !.declared_vars = @ \cup {var}], "ASSIGN", d + 1) IN
  IF c3.exc # NoExc THEN Raised(c3.self, c3.exc, <<>>) ELSE
  LET e == expr(c3.self, d + 1) IN
  IF e.exc # NoExc THEN Raised(e.self, e.exc, <<>>) ELSE
  LET stored == [e.self EXCEPT !.env = Put(@, var, e.val)]
      c4 == consume(stored, "END", d + 1)
  IN
  IF c4.exc # NoExc THEN Raised(c4.self, c4.exc, <<>>) ELSE Done(c4.self, <<>>)

\* self.declaration()
declaration(self, d) ==
  LET c1 == consume(self, "CREATE", d + 1) IN
  IF c1.exc # NoExc THEN Raised(c1.self, c1.exc, <<>>) ELSE
  LET c2 == consume(c1.self, "ID", d + 1) IN
  IF c2.exc # NoExc THEN Raised(c2.self, c2.exc, <<>>) ELSE
  LET var == c2.token.value.s IN
  IF var \in self.declared_vars
  THEN Raised(c2.self, Exc("Exception", "already declared", "", c2.token, NoneV), <<>>) ELSE
  LET c3 == consume(c2.self, "ASSIGN", d + 1) IN
  IF c3.exc # NoExc THEN Raised(c3.self, c3.exc, <<>>) ELSE
  LET e == expr(c3.self, d + 1) IN
  IF e.exc # NoExc THEN Raised(e.self, e.exc, <<>>) ELSE
  LET stored == [e.self EXCEPT !.env = Put(@, var, e.val), !.declared_vars = @ \cup {var}]
      c4 == consume(stored, "END", d + 1)
  IN
  IF c4.exc # NoExc THEN Raised(c4.self, c4.exc, <<>>) ELSE Done(c4.self, <<>>)

\* assignment() without its `if var not in self.declared_vars` check
assignment_NoCheck(self, d) ==
  LET c1 == consume(self, "ID", d + 1) IN
  IF c1.exc # NoExc THEN Raised(c1.self, c1.exc, <<>>) ELSE
  LET var == c1.token.value.s IN
  LET c2 == consume(c1.self, "ASSIGN", d + 1) IN
  IF c2.exc # NoExc THEN Raised(c2.self, c2.exc, <<>>) ELSE
  LET e == expr(c2.self, d + 1) IN
  IF e.exc # NoExc THEN Raised(e.self, e.exc, <<>>) ELSE
  LET stored == [e.self EXCEPT !.env = Put(@, var, e.val)]
      c3 == consume(stored, "END", d + 1)
  IN
  IF c3.exc # NoExc THEN Raised(c3.self, c3.exc, <<>>) ELSE Done(c3.self, <<>>)

\* self.assignment()
assignment(self, d) ==
  LET c1 == consume(self, "ID", d + 1) IN
  IF c1.exc # NoExc THEN Raised(c1.self, c1.exc, <<>>) ELSE
  LET var == c1.token.value.s IN
  IF var \notin self.declared_vars
  THEN Raised(c1.self, Exc("Exception", "not declared", "", c1.token, NoneV), <<>>) ELSE
  LET c2 == consume(c1.self, "ASSIGN", d + 1) IN
  IF c2.exc # NoExc THEN Raised(c2.self, c2.exc, <<>>) ELSE
  LET e == expr(c2.self, d + 1) IN
  IF e.exc # NoExc THEN Raised(e.self, e.exc, <<>>) ELSE
  LET stored == [e.self EXCEPT !.env = Put(@, var, e.val)]
      c3 == consume(stored, "END", d + 1)
  IN
  IF c3.exc # NoExc THEN Raised(c3.self, c3.exc, <<>>) ELSE Done(c3.self, <<>>)

\* the PRINT branch of statement()
print_statement(self, d) ==
  LET c1 == consume(self, "PRINT", d + 1) IN
  IF c1.exc # NoExc THEN Raised(c1.self, c1.exc, <<>>) ELSE
  LET e == expr(c1.self, d + 1) IN
  IF e.exc # NoExc THEN Raised(e.self, e.exc, <<>>) ELSE
  LET c2 == consume(e.self, "END", d + 1) IN
  IF c2.exc # NoExc THEN Raised(c2.self, c2.exc, <<str(e.val)>>) ELSE Done(c2.self, <<str(e.val)>>)

\* the RETURN branch of statement(); ReturnValue(value) runs
\* ReturnValue.__init__ two frames above statement()
return_statement(self, d) ==
  LET c1 == consume(self, "RETURN", d + 1) IN
  IF c1.exc # NoExc THEN Raised(c1.self, c1.exc, <<>>) ELSE
  IF ~InRange(c1.self) THEN Raised(c1.self, IndexError, <<>>) ELSE
  LET e == IF current(c1.self).type # "END" THEN expr(c1.self, d + 1)
           ELSE [self |-> c1.self, val |-> NoneV, exc |-> NoExc]
  IN
  IF e.exc # NoExc THEN Raised(e.self, e.exc, <<>>) ELSE
  LET c2 == consume(e.self, "END", d + 1) IN
  IF c2.exc # NoExc THEN Raised(c2.self, c2.exc, <<>>)
  ELSE Raised(c2.self, Raise(ReturnValue(e.val), d + 2), <<>>)

\* Interpreter(block).execute_with_env(self.env.copy(), self.functions.copy())
\* up to its call of parse()
ChildOf(self, block) == execute_with_env(Interpreter(block), self.env, self.functions)

\* a method of self running at depth d starts a nested Interpreter on block:
\* Interpreter.__init__ and then the nested parse() run two frames above it
Start(self, wait, block, d) ==
  IF TooDeep(d + 2) THEN Raised(self, RecursionError, <<>>)
  ELSE Nested([self EXCEPT !.wait = wait], ChildOf(self, block))

\* self.if_statement(), up to the start of the nested parse()
if_statement(self, d) ==
  LET c1 == consume(self, "IF", d + 1) IN
  IF c1.exc # NoExc THEN Raised(c1.self, c1.exc, <<>>) ELSE
  LET c2 == consume(c1.self, "LPAREN", d + 1) IN
  IF c2.exc # NoExc THEN Raised(c2.self, c2.exc, <<>>) ELSE
  LET condition == expr(c2.self, d + 1) IN
  IF condition.exc # NoExc THEN Raised(condition.self, condition.exc, <<>>) ELSE
  LET c3 == consume(condition.self, "RPAREN", d + 1) IN
  IF c3.exc # NoExc THEN Raised(c3.self, c3.exc, <<>>) ELSE
  LET c4 == consume(c3.self, "LBRACE", d + 1) IN
  IF c4.exc # NoExc THEN Raised(c4.self, c4.exc, <<>>) ELSE
  LET true_block == collect_block(c4.self, d + 1) IN
  IF true_block.exc # NoExc THEN Raised(true_block.self, true_block.exc, <<>>) ELSE
  IF ~InRange(true_block.self) THEN Raised(true_block.self, IndexError, <<>>) ELSE
  IF current(true_block.self).type # "ELSE"
  THEN LET block == IF Truthy(condition.val) THEN true_block.block ELSE <<>> IN
       Start(true_block.self, "if", block, d)
  ELSE
  LET c5 == consume(true_block.self, "ELSE", d + 1) IN
  LET c6 == consume(c5.self, "LBRACE", d + 1) IN
  IF c6.exc # NoExc THEN Raised(c6.self, c6.exc, <<>>) ELSE
  LET false_block == collect_block(c6.self, d + 1) IN
  IF false_block.exc # NoExc THEN Raised(false_block.self, false_block.exc, <<>>) ELSE
  LET block == IF Truthy(condition.val) THEN true_block.block ELSE false_block.block IN
  Start(false_block.self, "if", block, d)

\* the loop at the end of while_statement: evaluate the condition in a fresh
\* Interpreter, then start the body in another one or leave the loop
while_loop(self, d) ==
  LET condition == evaluate_with_env(Interpreter(self.cond), self.env, d + 1) IN
  IF condition.exc # NoExc THEN Raised(self, condition.exc, <<>>)
  ELSE IF Truthy(condition.val)
  THEN Start(self, "while", self.body, d)
  ELSE Done([self EXCEPT !.wait = "", !.cond = <<>>, !.body = <<>>], <<>>)

\* self.while_statement(), up to the start of the first nested parse()
while_statement(self, d) ==
  LET c1 == consume(self, "WHILE", d + 1) IN
  IF c1.exc # NoExc THEN Raised(c1.self, c1.exc, <<>>) ELSE
  LET c2 == consume(c1.self, "LPAREN", d + 1) IN
  IF c2.exc # NoExc THEN Raised(c2.self, c2.exc, <<>>) ELSE
  LET condition_tokens == CollectUntil(c2.self, "RPAREN", d) IN
  IF condition_tokens.exc # NoExc THEN Raised(condition_tokens.self, condition_tokens.exc, <<>>) ELSE
  LET c3 == consume(condition_tokens.self, "LBRACE", d + 1) IN
  IF c3.exc # NoExc THEN Raised(c3.self, c3.exc, <<>>) ELSE
  LET body == collect_block(c3.self, d + 1) IN
  IF body.exc # NoExc THEN Raised(body.self, body.exc, <<>>) ELSE
  while_loop([body.self EXCEPT !.cond = condition_tokens.block, !.body = body.block], d)

\* self.function_definition()
function_definition(self, d) ==
  LET c1 == consume(self, "FUNCTION", d + 1) IN
  IF c1.exc # NoExc THEN Raised(c1.self, c1.exc, <<>>) ELSE
  LET c2 == consume(c1.self, "ID", d + 1) IN
  IF c2.exc # NoExc THEN Raised(c2.self, c2.exc, <<>>) ELSE
  LET c3 == consume(c2.self, "LPAREN", d + 1) IN
  IF c3.exc # NoExc THEN Raised(c3.self, c3.exc, <<>>) ELSE
  LET c4 == consume(c3.self, "RPAREN", d + 1) IN
  IF c4.exc # NoExc THEN Raised(c4.self, c4.exc, <<>>) ELSE
  LET c5 == consume(c4.self, "LBRACE", d + 1) IN
  IF c5.exc # NoExc THEN Raised(c5.self, c5.exc, <<>>) ELSE
  LET body == collect_block(c5.self, d + 1) IN
  IF body.exc # NoExc THEN Raised(body.self, body.exc, <<>>) ELSE
  Done([body.self EXCEPT !.functions = Put(@, c2.token.value.s, body.block)], <<>>)

\* function_call() that also removes the function from self.functions, so
\* that a function can be called once
function_call_Once(self, d) ==
  LET c1 == consume(self, "ID", d + 1) IN
  IF c1.exc # NoExc THEN Raised(c1.self, c1.exc, <<>>) ELSE
  LET c2 == consume(c1.self, "LPAREN", d + 1) IN
  IF c2.exc # NoExc THEN Raised(c2.self, c2.exc, <<>>) ELSE
  LET c3 == consume(c2.self, "RPAREN", d + 1) IN
  IF c3.exc # NoExc THEN Raised(c3.self, c3.exc, <<>>) ELSE
  LET name == c1.token.value.s IN
  IF name \notin DOMAIN self.functions
  THEN Raised(c3.self, Exc("Exception", "not defined", "", c1.token, NoneV), <<>>)
  ELSE Start([c3.self EXCEPT !.functions = [k \in (DOMAIN @) \ {name} |-> @[k]]],
             "call", self.functions[name], d)

\* self.function_call(), up to the start of the nested parse()
function_call(self, d) ==
  LET c1 == consume(self, "ID", d + 1) IN
  IF c1.exc # NoExc THEN Raised(c1.self, c1.exc, <<>>) ELSE
  LET c2 == consume(c1.self, "LPAREN", d + 1) IN
  IF c2.exc # NoExc THEN Raised(c2.self, c2.exc, <<>>) ELSE
  LET c3 == consume(c2.self, "RPAREN", d + 1) IN
  IF c3.exc # NoExc THEN Raised(c3.self, c3.exc, <<>>) ELSE
  LET name == c1.token.value.s IN
  IF name \notin DOMAIN self.functions
  THEN Raised(c3.self, Exc("Exception", "not defined", "", c1.token, NoneV), <<>>)
  ELSE Start(c3.self, "call", self.functions[name], d)

\* which branch of the if/elif chain of statement() the current token selects
StatementKind(self) ==
  LET curr == current(self) IN
  IF curr.type = "CREATE" THEN "declaration"
  ELSE IF curr.type = "ID" /\ peek(self).type = "ASSIGN" THEN "assignment"
  ELSE IF curr.type = "ID" /\ peek(self).type = "LPAREN" THEN "function_call"
  ELSE IF curr.type = "PRINT" THEN "print"
  ELSE IF curr.type = "IF" THEN "if_statement"
  ELSE IF curr.type = "WHILE" THEN "while_statement"
  ELSE IF curr.type = "FUNCTION" THEN "function_definition"
  ELSE IF curr.type = "RETURN" THEN "return"
  ELSE "unknown"

\* the calls statement() makes to choose the branch: self.current() and,
\* when the current token is an ID, self.peek()
StatementKind_exc(self, d) ==
  IF current_exc(self, d + 1) # NoExc THEN current_exc(self, d + 1)
  ELSE IF current(self).type = "ID" THEN peek_exc(self, d + 1)
  ELSE NoExc

\* self.statement(), up to the start of a nested parse(); the PRINT and RETURN
\* branches run in the frame of statement() itself
statement(self, d) ==
  IF StatementKind_exc(self, d) # NoExc THEN Raised(self, StatementKind_exc(self, d), <<>>) ELSE
  LET kind == StatementKind(self) IN
  IF kind = "declaration" THEN declaration(self, d + 1)
  ELSE IF kind = "assignment" THEN assignment(self, d + 1)
  ELSE IF kind = "function_call" THEN function_call(self, d + 1)
  ELSE IF kind = "print" THEN print_statement(self, d)
  ELSE IF kind = "if_statement" THEN if_statement(self, d + 1)
  ELSE IF kind = "while_statement" THEN while_statement(self, d + 1)
  ELSE IF kind = "function_definition" THEN function_definition(self, d + 1)
  ELSE IF kind = "return" THEN return_statement(self, d)
  ELSE Raised(self, Raise(Exc("SyntaxError", "Unknown statement", "", current(self), NoneV),
                          d + ReprDepth(current(self))), <<>>)

\* One turn of the loop of self.parse() running at depth d, at a statement:
\* self.current() of the loop's test, then self.statement()
parse(self, d) ==
  IF current_exc(self, d + 1) # NoExc THEN Raised(self, current_exc(self, d + 1), <<>>)
  ELSE statement(self, d + 1)

\* ---------------------------------------------------------------------------
\* The call stack of Interpreter objects, exceptions
\* ---------------------------------------------------------------------------
Top(stk) == stk[Len(stk)]

\* the depth of the frame of parse() of the k-th Interpreter of the stack:
\* repl() calls the first, and each nested one is four frames above its
\* caller's (statement, the statement's method, execute_with_env, parse)
ParseDepth(k) == ReplDepth + 1 + 4 * (k - 1)

\* the stack after its running Interpreter has done r
Step(stk, r) ==
  [stack |-> [stk EXCEPT ![Len(stk)] = r.self] \o r.push, exc |-> r.exc, out |-> r.out]

\* the frames of stk, below its top, that are inside the try of function_call
Handlers(stk) == {j \in 1..(Len(stk) - 1) : stk[j].wait = "call"}

\* function_call has caught ReturnValue in self (or its nested parse()
\* returned): it returns and statement(), running at depth d, goes on with
\* self.consume('END')
function_call_return(self, d) ==
  LET c == consume([self EXCEPT !.wait = ""], "END", d + 1) IN
  IF c.exc # NoExc THEN Raised(c.self, c.exc, <<>>) ELSE Done(c.self, <<>>)

\* Unwind where the nested Interpreter was given self.env itself, not a
\* copy: the caller that catches ReturnValue sees the env of the callee
Unwind_WriteBack(stk, exc) ==
  IF exc.cls = "ReturnValue" /\ Handlers(stk) # {}
  THEN LET j == CHOOSE h \in Handlers(stk) : \A m \in Handlers(stk) : m <= h
           r == function_call_return([stk[j] EXCEPT !.env = Top(stk).env], ParseDepth(j) + 1)
       IN
       IF r.exc # NoExc THEN [stack |-> <<>>, exc |-> r.exc]
       ELSE [stack |-> Append(SubSeq(stk, 1, j - 1), r.self), exc |-> NoExc]
  ELSE [stack |-> <<>>, exc |-> exc]

\* Unwind where function_call has no try/except
Unwind_NoCatch(stk, exc) == [stack |-> <<>>, exc |-> exc]

\* Unwind where a ReturnValue that no function_call catches ends the
\* top-level parse() silently
Unwind_Swallow(stk, exc) ==
  IF exc.cls = "ReturnValue" /\ Handlers(stk) # {}
  THEN LET j == CHOOSE h \in Handlers(stk) : \A m \in Handlers(stk) : m <= h
           r == function_call_return(stk[j], ParseDepth(j) + 1)
       IN
       IF r.exc # NoExc THEN [stack |-> <<>>, exc |-> r.exc]
       ELSE [stack |-> Append(SubSeq(stk, 1, j - 1), r.self), exc |-> NoExc]
  ELSE IF exc.cls = "ReturnValue" THEN [stack |-> <<>>, exc |-> NoExc]
  ELSE [stack |-> <<>>, exc |-> exc]

\* Unwind where while_statement catches the IndexError that ends the parse()
\* of its body and leaves the loop
Unwind_LeaveLoop(stk, exc) ==
  IF exc.cls = "IndexError" /\ Len(stk) > 1 /\ stk[Len(stk) - 1].wait = "while"
  THEN [stack |-> Append(SubSeq(stk, 1, Len(stk) - 2),
                         [stk[Len(stk) - 1] EXCEPT !.wait = "", !.cond = <<>>, !.body = <<>>]),
        exc |-> NoExc]
  ELSE IF exc.cls = "ReturnValue" /\ Handlers(stk) # {}
  THEN LET j == CHOOSE h \in Handlers(stk) : \A m \in Handlers(stk) : m <= h
           r == function_call_return(stk[j], ParseDepth(j) + 1)
       IN
       IF r.exc # NoExc THEN [stack |-> <<>>, exc |-> r.exc]
       ELSE [stack |-> Append(SubSeq(stk, 1, j - 1), r.self), exc |-> NoExc]
  ELSE [stack |-> <<>>, exc |-> exc]

\* exc propagates from the running Interpreter of stk: a ReturnValue is caught
\* by the innermost function_call, anything else (and a ReturnValue with no
\* function_call around it) unwinds every parse() and reaches repl().
Unwind(stk, exc) ==
  IF exc.cls = "ReturnValue" /\ Handlers(stk) # {}
  THEN LET j == CHOOSE h \in Handlers(stk) : \A m \in Handlers(stk) : m <= h
           r == function_call_return(stk[j], ParseDepth(j) + 1)
       IN
       IF r.exc # NoExc THEN [stack |-> <<>>, exc |-> r.exc]
       ELSE [stack |-> Append(SubSeq(stk, 1, j - 1), r.self), exc |-> NoExc]
  ELSE [stack |-> <<>>, exc |-> exc]

\* the nested parse() of the running Interpreter of stk has returned: the
\* caller goes on where it was suspended
Resume(stk) ==
  LET caller == stk[Len(stk) - 1]
      below == SubSeq(stk, 1, Len(stk) - 1)
  IN
  IF caller.wait = "call" THEN Step(below, function_call_return(caller, ParseDepth(Len(below)) + 1))
  ELSE IF caller.wait = "while" THEN Step(below, while_loop(caller, ParseDepth(Len(below)) + 2))
  ELSE Step(below, Done([caller EXCEPT !.wait = ""], <<>>))

\* One step of the Interpreter call stack has produced r (the stack at the end
\* of the step or at the raise, the exception, the printed lines).  repl()'s
\* env, declared_vars and functions are the very objects the top-level
\* Interpreter mutates, so they follow stack[1] whether or not parse() raises.
Finish(r) ==
  LET u == IF r.exc = NoExc THEN [stack |-> r.stack, exc |-> NoExc] ELSE Unwind(r.stack, r.exc) IN
  /\ stack' = u.stack
  /\ errors' = IF u.exc # NoExc THEN Append(errors, u.exc) ELSE errors
  /\ output' = output \o r.out
  /\ env' = r.stack[1].env
  /\ declared_vars' = r.stack[1].declared_vars
  /\ functions' = r.stack[1].functions
  /\ UNCHANGED <<lines, user_input, exited, lexer>>

\* ---------------------------------------------------------------------------
\* Input lines
\* ---------------------------------------------------------------------------
\* create x = 1; if (x == 1) { x = 2; } print x;
ProgIfEq ==
  <<"c", "r", "e", "a", "t", "e", " ", "x", " ", "=", " ", "1", ";", " ", "i", "f", " ", "(",
    "x", " ", "=", "=", " ", "1", ")", " ", "{", " ", "x", " ", "=", " ", "2", ";", " ", "}",
    " ", "p", "r", "i", "n", "t", " ", "x", ";">>

\* create x = 1; if (x) { x = 2; } print x;
ProgIf ==
  <<"c", "r", "e", "a", "t", "e", " ", "x", " ", "=", " ", "1", ";", " ", "i", "f", " ", "(",
    "x", ")", " ", "{", " ", "x", " ", "=", " ", "2", ";", " ", "}", " ", "p", "r", "i", "n",
    "t", " ", "x", ";">>

\* create n = 0; while (n < 3) { n = n + 1; }
ProgWhile ==
  <<"c", "r", "e", "a", "t", "e", " ", "n", " ", "=", " ", "0", ";", " ", "w", "h", "i", "l",
    "e", " ", "(", "n", " ", "<", " ", "3", ")", " ", "{", " ", "n", " ", "=", " ", "n", " ",
    "+", " ", "1", ";", " ", "}">>

\* function f() { return 7; print 1; } f(); print 2;
ProgReturn ==
  <<"f", "u", "n", "c", "t", "i", "o", "n", " ", "f", "(", ")", " ", "{", " ", "r", "e", "t",
    "u", "r", "n", " ", "7", ";", " ", "p", "r", "i", "n", "t", " ", "1", ";", " ", "}", " ",
    "f", "(", ")", ";", " ", "p", "r", "i", "n", "t", " ", "2", ";">>

\* function f() { if (1) { return 5; } print 9; } f(); print 2;
ProgNestedReturn ==
  <<"f", "u", "n", "c", "t", "i", "o", "n", " ", "f", "(", ")", " ", "{", " ", "i", "f", " ",
    "(", "1", ")", " ", "{", " ", "r", "e", "t", "u", "r", "n", " ", "5", ";", " ", "}", " ",
    "p", "r", "i", "n", "t", " ", "9", ";", " ", "}", " ", "f", "(", ")", ";", " ", "p", "r",
    "i", "n", "t", " ", "2", ";">>

\* f(); print 3;
ProgCall ==
  <<"f", "(", ")", ";", " ", "p", "r", "i", "n", "t", " ", "3", ";">>

\* return 3; print 1;
ProgTopReturn ==
  <<"r", "e", "t", "u", "r", "n", " ", "3", ";", " ", "p", "r", "i", "n", "t", " ", "1", ";">>

\* if (1) { return; } print 1;
ProgIfReturn ==
  <<"i", "f", " ", "(", "1", ")", " ", "{", " ", "r", "e", "t", "u", "r", "n", ";", " ", "}",
    " ", "p", "r", "i", "n", "t", " ", "1", ";">>

\* while (1 1) { return; } print 1;
ProgWhileReturn ==
  <<"w", "h", "i", "l", "e", " ", "(", "1", " ", "1", ")", " ", "{", " ", "r", "e", "t", "u",
    "r", "n", ";", " ", "}", " ", "p", "r", "i", "n", "t", " ", "1", ";">>

\* create x = 1 print x;
ProgNoEnd ==
  <<"c", "r", "e", "a", "t", "e", " ", "x", " ", "=", " ", "1", " ", "p", "r", "i", "n", "t",
    " ", "x", ";">>

\* create x = 2; print x;
ProgCreate ==
  <<"c", "r", "e", "a", "t", "e", " ", "x", " ", "=", " ", "2", ";", " ", "p", "r", "i", "n",
    "t", " ", "x", ";">>

\* create x = y;
ProgCreateBad ==
  <<"c", "r", "e", "a", "t", "e", " ", "x", " ", "=", " ", "y", ";">>

\* y = 1;
ProgAssignUndeclared ==
  <<"y", " ", "=", " ", "1", ";">>

\* x = 5; print x;
ProgAssign ==
  <<"x", " ", "=", " ", "5", ";", " ", "p", "r", "i", "n", "t", " ", "x", ";">>

\* if (0) { print 1; } else { create z = 3; } print 2;
ProgElse ==
  <<"i", "f", " ", "(", "0", ")", " ", "{", " ", "p", "r", "i", "n", "t", " ", "1", ";", " ",
    "}", " ", "e", "l", "s", "e", " ", "{", " ", "c", "r", "e", "a", "t", "e", " ", "z", " ",
    "=", " ", "3", ";", " ", "}", " ", "p", "r", "i", "n", "t", " ", "2", ";">>

\* if (0) { print 1; } print 2;
ProgIfFalse ==
  <<"i", "f", " ", "(", "0", ")", " ", "{", " ", "p", "r", "i", "n", "t", " ", "1", ";", " ",
    "}", " ", "p", "r", "i", "n", "t", " ", "2", ";">>

\* function g() { create x = 9; print x; } g(); print 4;
ProgCallNoReturn ==
  <<"f", "u", "n", "c", "t", "i", "o", "n", " ", "g", "(", ")", " ", "{", " ", "c", "r", "e",
    "a", "t", "e", " ", "x", " ", "=", " ", "9", ";", " ", "p", "r", "i", "n", "t", " ", "x",
    ";", " ", "}", " ", "g", "(", ")", ";", " ", "p", "r", "i", "n", "t", " ", "4", ";">>

\* function f() { f(); } f();
ProgRecursive ==
  <<"f", "u", "n", "c", "t", "i", "o", "n", " ", "f", "(", ")", " ", "{", " ", "f", "(", ")",
    ";", " ", "}", " ", "f", "(", ")", ";">>

\* while (0 0) { print 1; } print 2;
ProgWhileFalse ==
  <<"w", "h", "i", "l", "e", " ", "(", "0", " ", "0", ")", " ", "{", " ", "p", "r", "i", "n",
    "t", " ", "1", ";", " ", "}", " ", "p", "r", "i", "n", "t", " ", "2", ";">>

\* while (1 1) { create w = 1; }
ProgWhileBody ==
  <<"w", "h", "i", "l", "e", " ", "(", "1", " ", "1", ")", " ", "{", " ", "c", "r", "e", "a",
    "t", "e", " ", "w", " ", "=", " ", "1", ";", " ", "}">>

\* exit;
ProgExit ==
  <<"e", "x", "i", "t", ";">>

\* print 1 < "a";
ProgTypeError ==
  <<"p", "r", "i", "n", "t", " ", "1", " ", "<", " ", "\"", "a", "\"", ";">>

\* print "a" < "b" and 2 >= 1;
ProgAnd ==
  <<"p", "r", "i", "n", "t", " ", "\"", "a", "\"", " ", "<", " ", "\"", "b", "\"", " ", "a",
    "n", "d", " ", "2", " ", ">", "=", " ", "1", ";">>

\* print 1 @;
ProgMismatch ==
  <<"p", "r", "i", "n", "t", " ", "1", " ", "@", ";">>

\* x = 5 print x;
ProgAssignNoEnd ==
  <<"x", " ", "=", " ", "5", " ", "p", "r", "i", "n", "t", " ", "x", ";">>

\* function f() { return; } f() print 1;
ProgCallNoEnd ==
  <<"f", "u", "n", "c", "t", "i", "o", "n", " ", "f", "(", ")", " ", "{", " ", "r", "e", "t",
    "u", "r", "n", ";", " ", "}", " ", "f", "(", ")", " ", "p", "r", "i", "n", "t", " ", "1",
    ";">>

\* print (1 < 2) or 0;
ProgParen ==
  <<"p", "r", "i", "n", "t", " ", "(", "1", " ", "<", " ", "2", ")", " ", "o", "r", " ", "0",
    ";">>

\* function f() { x = 8; return x; } f(); print x;
ProgCallAssign ==
  <<"f", "u", "n", "c", "t", "i", "o", "n", " ", "f", "(", ")", " ", "{", " ", "x", " ", "=",
    " ", "8", ";", " ", "r", "e", "t", "u", "r", "n", " ", "x", ";", " ", "}", " ", "f", "(",
    ")", ";", " ", "p", "r", "i", "n", "t", " ", "x", ";">>

\* y = z;
ProgAssignBad ==
  <<"y", " ", "=", " ", "z", ";">>

\* print 1 < 2 and 3 > 2;
ProgAndTrue ==
  <<"p", "r", "i", "n", "t", " ", "1", " ", "<", " ", "2", " ", "a", "n", "d", " ", "3",
    " ", ">", " ", "2", ";">>

\* print 1 < 2 or 1 > 2;
ProgOrTrue ==
  <<"p", "r", "i", "n", "t", " ", "1", " ", "<", " ", "2", " ", "o", "r", " ", "1", " ",
    ">", " ", "2", ";">>

\* print 1 or y;
ProgOrFault ==
  <<"p", "r", "i", "n", "t", " ", "1", " ", "o", "r", " ", "y", ";">>

\* print 0 and y;
ProgAndFault ==
  <<"p", "r", "i", "n", "t", " ", "0", " ", "a", "n", "d", " ", "y", ";">>

\* create x = 1; function f() { print x; x = 2; return; } f(); f();
ProgTwice ==
  <<"c", "r", "e", "a", "t", "e", " ", "x", " ", "=", " ", "1", ";", " ", "f", "u", "n",
    "c", "t", "i", "o", "n", " ", "f", "(", ")", " ", "{", " ", "p", "r", "i", "n", "t",
    " ", "x", ";", " ", "x", " ", "=", " ", "2", ";", " ", "r", "e", "t", "u", "r", "n",
    ";", " ", "}", " ", "f", "(", ")", ";", " ", "f", "(", ")", ";">>

\* while (1 > 2) { print 1; } print 2;
ProgWhileGt ==
  <<"w", "h", "i", "l", "e", " ", "(", "1", " ", ">", " ", "2", ")", " ", "{", " ", "p",
    "r", "i", "n", "t", " ", "1", ";", " ", "}", " ", "p", "r", "i", "n", "t", " ", "2",
    ";">>

\* the texts a line of input can be
Inputs ==
  <<ProgIfEq, ProgIf, ProgWhile, ProgReturn, ProgNestedReturn,
    ProgCall, ProgTopReturn, ProgIfReturn, ProgWhileReturn, ProgNoEnd,
    ProgCreate, ProgCreateBad, ProgAssignUndeclared, ProgAssign, ProgElse,
    ProgIfFalse, ProgCallNoReturn, ProgRecursive, ProgWhileFalse, ProgWhileBody,
    ProgExit, ProgTypeError, ProgAnd, ProgMismatch, ProgAssignNoEnd,
    ProgCallNoEnd, ProgParen, ProgCallAssign, ProgAssignBad,
    ProgAndTrue, ProgOrTrue, ProgOrFault, ProgAndFault,
    ProgTwice,
    ProgWhileGt>>

\* the index of a text in Inputs
IndexOf(text) == CHOOSE i \in 1..Len(Inputs) : Inputs[i] = text

RECURSIVE lstrip(_)
lstrip(cs) == IF cs # <<>> /\ Head(cs) \in {" ", "\t", "\n"} THEN lstrip(Tail(cs)) ELSE cs

RECURSIVE rstrip(_)
rstrip(cs) ==
  IF cs # <<>> /\ cs[Len(cs)] \in {" ", "\t", "\n"} THEN rstrip(SubSeq(cs, 1, Len(cs) - 1)) ELSE cs

\* str.strip()
strip(cs) == rstrip(lstrip(cs))

\* ---------------------------------------------------------------------------
\* Actions
\* ---------------------------------------------------------------------------
Init ==
  /\ env = EmptyMap
  /\ declared_vars = {}
  /\ functions = EmptyMap
  /\ stack = <<>>
  /\ output = <<>>
  /\ errors = <<>>
  /\ lines = <<>>
  /\ user_input = <<>>
  /\ exited = FALSE
  /\ lexer = Lexer(<<>>)

\* the running Interpreter is at a statement of the given kind
At(kind) ==
  /\ stack # <<>>
  /\ InRange(Top(stack))
  /\ current(Top(stack)).type # "EOF"
  /\ StatementKind(Top(stack)) = kind

\* the running Interpreter executes the statement at its cursor (one turn of
\* the loop of parse())
Run(kind) ==
  /\ At(kind)
  /\ Finish(Step(stack, parse(Top(stack), ParseDepth(Len(stack)))))

\* line.strip().endswith(';') or line.strip() == 'exit;'
EndsUnit(line) ==
  \/ (strip(line) # <<>> /\ strip(line)[Len(strip(line))] = ";")
  \/ strip(line) = <<"e", "x", "i", "t", ";">>

\* One turn of the inner loop of repl(): a line is read and added to
\* user_input.  A line that does not end the unit leaves repl() reading; one
\* that does takes repl() to the rest of the outer loop, up to the call of
\* parse(): the unit is `exit;` and the driver stops, or it is lexed and a
\* top-level Interpreter is set up on the carried env, declared_vars and
\* functions.
ReadLine(i) ==
  /\ stack = <<>>
  /\ ~exited
  /\ Len(lines) < MaxLines
  /\ lines' = Append(lines, i)
  /\ \E unit \in {user_input \o Inputs[i] \o <<"\n">>} :
       IF ~EndsUnit(Inputs[i])
       THEN /\ user_input' = unit
            /\ UNCHANGED <<env, declared_vars, functions, stack, output, errors, exited, lexer>>
       ELSE
       /\ user_input' = <<>>
       /\ IF strip(unit) = <<"e", "x", "i", "t", ";">>
          THEN /\ exited' = TRUE
               /\ UNCHANGED <<env, declared_vars, functions, stack, output, errors, lexer>>
          ELSE \E lexed \in {tokenize(unit)} :
               /\ lexer' = [text |-> unit, ran |-> TRUE, exc |-> lexed.exc,
                            tokens |-> lexed.tokens]
               /\ IF lexed.exc # NoExc
                  THEN /\ errors' = Append(errors, lexed.exc)
                       /\ stack' = <<>>
                  ELSE /\ errors' = errors
                       /\ stack' = <<[Interpreter(lexed.tokens) EXCEPT
                                        !.env = env, !.declared_vars = declared_vars,
                                        !.functions = functions]>>
               /\ UNCHANGED <<env, declared_vars, functions, output, exited>>

Declaration == Run("declaration")
Assignment == Run("assignment")
FunctionCall == Run("function_call")
PrintLine == Run("print")
IfStatement == Run("if_statement")
WhileStatement == Run("while_statement")
FunctionDefinition == Run("function_definition")
Return == Run("return")
UnknownStatement == Run("unknown")

\* The head of the loop of parse() finds no statement: reading the current
\* token raises (IndexError past the last token, RecursionError when the call
\* stack has no room for self.current()), or the token is EOF and parse() returns, to repl()
\* from the top-level Interpreter and to the suspended caller from a nested one.
ParseEnd ==
  /\ stack # <<>>
  /\ curtype(Top(stack)) \in {"", "EOF"}
  /\ IF current_exc(Top(stack), ParseDepth(Len(stack)) + 1) # NoExc
     THEN Finish([stack |-> stack, exc |-> current_exc(Top(stack), ParseDepth(Len(stack)) + 1),
                  out |-> <<>>])
     ELSE IF Len(stack) = 1
     THEN /\ stack' = <<>>
          /\ env' = stack[1].env
          /\ declared_vars' = stack[1].declared_vars
          /\ functions' = stack[1].functions
          /\ UNCHANGED <<output, errors, lines, user_input, exited, lexer>>
     ELSE Finish(Resume(stack))

Next ==
  \/ \E i \in 1..Len(Inputs) : ReadLine(i)
  \/ Declaration
  \/ Assignment
  \/ FunctionCall
  \/ PrintLine
  \/ IfStatement
  \/ WhileStatement
  \/ FunctionDefinition
  \/ Return
  \/ UnknownStatement
  \/ ParseEnd

Spec == Init /\ [][Next]_vars

\* ---------------------------------------------------------------------------
\* The lexer on its own
\* ---------------------------------------------------------------------------
\* the characters of the texts: a letter of no keyword, the letters of the
\* keywords `if` and `or`, a digit, a quote, blank and newline, and the
\* characters of the ASSIGN and COMPARE patterns
Alphabet == {"a", "b", "i", "f", "o", "r", "1", "\"", " ", "\n", "=", "!", "<", ">"}

\* a==b
TextEqEq == <<"a", "=", "=", "b">>

\* a!=b
TextNotEq == <<"a", "!", "=", "b">>

\* the texts a Lexer is constructed on
Texts ==
  UNION {[1..n -> Alphabet] : n \in 0..MaxTextLen} \cup {TextEqEq, TextNotEq}

LexInit ==
  /\ env = EmptyMap
  /\ declared_vars = {}
  /\ functions = EmptyMap
  /\ stack = <<>>
  /\ output = <<>>
  /\ errors = <<>>
  /\ lines = <<>>
  /\ user_input = <<>>
  /\ exited = FALSE
  /\ lexer \in {Lexer(text) : text \in Texts}

\* lexer.tokenize()
Tokenize ==
  /\ ~lexer.ran
  /\ LET lexed == tokenize(lexer.text) IN
     lexer' = [text |-> lexer.text, ran |-> TRUE, exc |-> lexed.exc, tokens |-> lexed.tokens]
  /\ UNCHANGED <<env, declared_vars, functions, stack, output, errors, lines, user_input,
                 exited>>

LexNext == Tokenize

LexSpec == LexInit /\ [][LexNext]_vars

\* ---------------------------------------------------------------------------
\* Properties
\* ---------------------------------------------------------------------------
\* the Environment, DeclaredSet and FunctionTable of a Session
Triple(self) == <<self.env, self.declared_vars, self.functions>>

\* the triple repl() carries to the next unit
Carried == <<env, declared_vars, functions>>

\* the last exception repl() reported
LastError == errors[Len(errors)]

\* the step hands an exception to repl()
Reported == Len(errors') = Len(errors) + 1

\* the caller of the running Interpreter, where Len(stack) > 1
Caller == stack[Len(stack) - 1]

\* the depth of the frame of statement() of the running Interpreter
StatementDepth == ParseDepth(Len(stack)) + 1

\* the depth of the frame that calls expr() for the statement at the cursor
\* of the running Interpreter: statement() itself for print and return, the
\* statement's method otherwise
ExprDepth ==
  IF StatementKind(Top(stack)) \in {"print", "return"} THEN StatementDepth
  ELSE StatementDepth + 1

\* the driver has read exactly these lines, has run every unit they make and
\* is waiting for the first line of the next one
Ran(us) == stack = <<>> /\ user_input = <<>> /\ lines = us

\* C1: when the nested Session of an if statement or of a call-as-statement
\* has used up the tokens of its Block, it ends normally and the parent, no
\* fault reported, becomes the running Session again, just past the statement.
C1_BlockRunsToCompletion ==
  [][(/\ Len(stack) > 1
      /\ ~InRange(Top(stack))
      /\ Caller.wait \in {"if", "call"}
      /\ (Caller.wait = "call" => curtype(Caller) = "END"))
     => (/\ errors' = errors
         /\ Len(stack') = Len(stack) - 1
         /\ stack'[Len(stack')].wait = "")]_vars

\* C2: a Session that is suspended in a nested execution, or that starts one,
\* keeps its triple through every step of it, whatever way it ends; and no
\* step of a nested Session, or of an if, while or call statement, changes the
\* triple the driver carries.
C2_NoWriteBack ==
  [][/\ \A j \in 1..Len(stack) :
          (j <= Len(stack') /\ (j < Len(stack) \/ Len(stack') > Len(stack)))
          => Triple(stack'[j]) = Triple(stack[j])
     /\ (Len(stack) > 1 \/ At("if_statement") \/ At("while_statement") \/ At("function_call"))
        => /\ Carried' = Carried
           /\ Carried' = Triple(stack[1])]_vars

\* a call whose body assigned 8 to x has returned, and the caller then printed
\* the 2 it had stored before
W_C2 ==
  /\ Ran(<<IndexOf(ProgCreate), IndexOf(ProgCallAssign)>>)
  /\ errors = <<>>
  /\ output = <<<<"2">>, <<"2">>>>
  /\ env[<<"x">>] = IntV(2)

\* the running Session is at `create v ...` with v in its DeclaredSet
Redeclares ==
  /\ At("declaration")
  /\ peek(Top(stack)).type = "ID"
  /\ peek(Top(stack)).value.s \in Top(stack).declared_vars

\* C3: `create v = e ;` with v already declared faults AlreadyDeclared naming
\* v, whatever e is, and changes neither the Environment nor the DeclaredSet.
C3_AlreadyDeclared ==
  [][Redeclares
     => (/\ stack' = <<>>
         /\ Reported
         /\ LastError' = Exc("Exception", "already declared", "", peek(Top(stack)), NoneV)
         /\ Carried' = Carried)]_vars

\* `create x = y;` was run with x declared and y not: the fault is about x
W_C3 ==
  /\ Ran(<<IndexOf(ProgCreate), IndexOf(ProgCreateBad)>>)
  /\ Len(errors) = 1
  /\ errors[1].msg = "already declared"
  /\ errors[1].tok.value.s = <<"x">>
  /\ env[<<"x">>] = IntV(2)

\* the running Session is at `v = ...` with v not in its DeclaredSet
AssignsUndeclared ==
  /\ At("assignment")
  /\ current(Top(stack)).value.s \notin Top(stack).declared_vars

\* the 0-based index of the first token of the expression of the statement
\* at the cursor of self, -1 when the statement has none or does not reach it
ExprStart(self) ==
  LET kind == StatementKind(self)
      typeAt(k) == IF self.pos + k < Len(self.tokens) THEN self.tokens[self.pos + k + 1].type ELSE ""
  IN
  IF kind \in {"print", "return"} THEN self.pos + 1
  ELSE IF kind = "if_statement" /\ typeAt(1) = "LPAREN" THEN self.pos + 2
  ELSE IF kind = "assignment" /\ current(self).value.s \in self.declared_vars THEN self.pos + 2
  ELSE IF /\ kind = "declaration" /\ typeAt(1) = "ID" /\ typeAt(2) = "ASSIGN"
          /\ self.tokens[self.pos + 2].value.s \notin self.declared_vars
       THEN self.pos + 3
  ELSE -1

\* the running Session is at a statement whose expression starts by reading
\* a name that is not in its DeclaredSet
ReadsUndeclared ==
  /\ stack # <<>>
  /\ InRange(Top(stack))
  /\ current(Top(stack)).type # "EOF"
  /\ LET k == ExprStart(Top(stack)) IN
     /\ k >= 0
     /\ k < Len(Top(stack).tokens)
     /\ Top(stack).tokens[k + 1].type = "ID"
     /\ Top(stack).tokens[k + 1].value.s \notin Top(stack).declared_vars

\* the token of the undeclared name that ReadsUndeclared is about
UndeclaredRead == Top(stack).tokens[ExprStart(Top(stack)) + 1]

\* C4: assigning to a name that is not declared, and reading one as a term,
\* fault NotDeclared naming it; the assignment faults whatever its right-hand
\* side is and adds nothing to the Environment or the DeclaredSet.
C4_NotDeclared ==
  [][/\ AssignsUndeclared
        => (/\ stack' = <<>>
            /\ Reported
            /\ LastError' = Exc("Exception", "not declared", "", current(Top(stack)), NoneV)
            /\ Carried' = Carried)
     /\ ReadsUndeclared
        => (/\ stack' = <<>>
            /\ Reported
            /\ LastError' = Exc("Exception", "not declared", "", UndeclaredRead, NoneV))]_vars

\* `y = z;` was run with neither name declared: the fault is about y, and y
\* is still in neither the Environment nor the DeclaredSet
W_C4 ==
  /\ Ran(<<IndexOf(ProgAssignBad)>>)
  /\ Len(errors) = 1
  /\ errors[1].msg = "not declared"
  /\ errors[1].tok.value.s = <<"y">>
  /\ env = EmptyMap
  /\ declared_vars = {}

\* C5: `create x = 1; if (x == 1) { x = 2; } print x;` run from the empty
\* state prints 1 and reports no fault.
C5_PrintsOne ==
  Ran(<<IndexOf(ProgIfEq)>>) => (output = <<<<"1">>>> /\ errors = <<>>)

\* C6: `create n = 0; while (n < 3) { n = n + 1; }` run from the empty state
\* (as the first line of a unit that the line `create x = 2; print x;` ends)
\* faults, and the fault is the unexpected-token fault of term at the `+`.
C6_FaultsAtPlus ==
  Ran(<<IndexOf(ProgWhile), IndexOf(ProgCreate)>>)
  => (/\ Len(errors) = 1
      /\ errors[1].msg = "Unexpected token in term"
      /\ errors[1].tok = Token("OP", StrV(<<"+">>)))

\* the running Session is a function body at a return statement that
\* evaluates, and the call that started it is followed by `;`
ReturnsInBody ==
  /\ At("return")
  /\ Len(stack) > 1
  /\ Caller.wait = "call"
  /\ curtype(Caller) = "END"
  /\ return_statement(Top(stack), StatementDepth).exc.cls = "ReturnValue"

\* C7: a return executed directly in a function body ends the call: the body
\* is abandoned, nothing is reported or printed, no triple changes, and the
\* caller is the running Session again with its cursor just past the `;` of
\* the call statement.
C7_ReturnEndsCall ==
  [][ReturnsInBody
     => (/\ errors' = errors
         /\ output' = output
         /\ Carried' = Carried
         /\ stack' = Append(SubSeq(stack, 1, Len(stack) - 2),
                            [Caller EXCEPT !.wait = "", !.pos = @ + 1]))]_vars

\* `function f() { return 7; print 1; } f(); print 2;` has run: the 1 after
\* the return was not printed, the 2 after the call was
W_C7 ==
  /\ Ran(<<IndexOf(ProgReturn)>>)
  /\ errors = <<>>
  /\ output = <<<<"2">>>>

\* C8: `function f() { if (1) { return 5; } print 9; } f(); print 2;`: the
\* return inside the if ends the call without a fault, the rest of the body
\* (print 9) is not executed, and the caller goes on (print 2); the same
\* holds of `f(); print 3;` in the next unit.
C8_ReturnThroughIf ==
  /\ Ran(<<IndexOf(ProgNestedReturn)>>) => (errors = <<>> /\ output = <<<<"2">>>>)
  /\ Ran(<<IndexOf(ProgNestedReturn), IndexOf(ProgCall)>>)
     => (errors = <<>> /\ output = <<<<"2">>, <<"3">>>>)

\* the running Session is at a return statement that evaluates, and no
\* function call is in progress below it
ReturnsOutsideCall ==
  /\ At("return")
  /\ Handlers(stack) = {}
  /\ return_statement(Top(stack), StatementDepth).exc.cls = "ReturnValue"

\* C9: a return executed with no enclosing function call reaches the driver
\* as a reported fault: every Session is abandoned, so no later statement of
\* the unit runs, nothing is printed, and the driver does not terminate.
C9_ReturnEscapes ==
  [][ReturnsOutsideCall
     => (/\ stack' = <<>>
         /\ Reported
         /\ LastError'.cls = "ReturnValue"
         /\ output' = output
         /\ Carried' = Carried
         /\ exited' = FALSE)]_vars

\* `if (1) { return; } print 1;` was reported as a fault, its print did not
\* run, and the driver then ran `create x = 2; print x;`
W_C9 ==
  /\ Ran(<<IndexOf(ProgIfReturn), IndexOf(ProgCreate)>>)
  /\ Len(errors) = 1
  /\ errors[1].cls = "ReturnValue"
  /\ output = <<<<"2">>>>
  /\ ~exited

\* the step ends a top-level parse() with a fault
FaultsToDriver == stack # <<>> /\ stack' = <<>> /\ Reported

\* the faulting statement is a top-level declaration or assignment that
\* stored its value and then found no `;`: the store is all that changed
StoreKept ==
  /\ Len(stack) = 1
  /\ InRange(Top(stack))
  /\ StatementKind(Top(stack)) \in {"declaration", "assignment"}
  /\ LastError'.msg = "Expected"
  /\ LastError'.expected = "END"
  /\ LET self == Top(stack)
         var == IF StatementKind(self) = "declaration"
                THEN peek(self).value.s ELSE current(self).value.s
     IN
     /\ functions' = functions
     /\ declared_vars' = declared_vars \cup {var}
     /\ DOMAIN env' = (DOMAIN env) \cup {var}
     /\ \A k \in (DOMAIN env) \ {var} : env'[k] = env[k]
     /\ env'[var] = expr([self EXCEPT !.pos = ExprStart(self)], StatementDepth + 2).val

\* C10 as claimed: the step in which a statement faults changes nothing of
\* the triple the driver carries, so that triple holds exactly the effects of
\* the statements before it.
C10_OnlyEarlierStatements ==
  [][FaultsToDriver => Carried' = Carried]_vars

\* C10 as amended: the step in which a statement faults changes nothing of
\* the carried triple, except that a top-level declaration or assignment
\* whose fault is the missing `;` keeps the store it has just made.
C10_PartialEffects ==
  [][FaultsToDriver => (Carried' = Carried \/ StoreKept)]_vars

\* `create x = 1 print x;` has faulted on the missing `;` and x = 1 is carried
W_C10 ==
  /\ Ran(<<IndexOf(ProgNoEnd)>>)
  /\ Len(errors) = 1
  /\ errors[1].expected = "END"
  /\ env = [k \in {<<"x">>} |-> IntV(1)]
  /\ declared_vars = {<<"x">>}
  /\ output = <<>>

\* the kinds of a token list
Kinds(tokens) == [k \in 1..Len(tokens) |-> tokens[k].type]

\* C11: the lexer takes the first pattern of the list that matches, not the
\* longest match: `a==b` gives ID ASSIGN ASSIGN ID EOF, `a!=b` gives
\* ID COMPARE ID EOF with the COMPARE holding `!=`, no text gives a COMPARE
\* token holding `==`, and each of `!=`, `<=`, `>=` alone is one COMPARE token.
C11_FirstPatternWins ==
  lexer.ran
  => /\ lexer.text = TextEqEq
        => (/\ lexer.exc = NoExc
            /\ Kinds(lexer.tokens) = <<"ID", "ASSIGN", "ASSIGN", "ID", "EOF">>)
     /\ lexer.text = TextNotEq
        => (/\ lexer.exc = NoExc
            /\ Kinds(lexer.tokens) = <<"ID", "COMPARE", "ID", "EOF">>
            /\ lexer.tokens[2].value = StrV(<<"!", "=">>))
     /\ \A k \in 1..Len(lexer.tokens) :
          lexer.tokens[k] # Token("COMPARE", StrV(<<"=", "=">>))
     /\ lexer.text \in {<<"!", "=">>, <<"<", "=">>, <<">", "=">>}
        => lexer.tokens = <<Token("COMPARE", StrV(lexer.text)), Token("EOF", StrV(<<>>))>>

\* `a==b` has been tokenized into five tokens
W_C11 ==
  /\ lexer.ran
  /\ lexer.text = TextEqEq
  /\ Len(lexer.tokens) = 5
  /\ lexer.tokens[2] = Token("ASSIGN", StrV(<<"=">>))
  /\ lexer.tokens[3] = Token("ASSIGN", StrV(<<"=">>))

\* the characters that start a match of a pattern other than MISMATCH,
\* whatever follows them
Starters ==
  {"=", ";", "+", "-", "*", "/", "%", "<", ">", "(", ")", "{", "}", "\n", " ", "\t"}

\* at 1-based index i of text no pattern other than MISMATCH matches
OnlyMismatch(text, i) ==
  LET c == text[i] IN
  /\ ~IsDigit(c)
  /\ ~IsIdStart(c)
  /\ c \notin Starters
  /\ ~(c = "\"" /\ \E j \in (i + 1)..Len(text) : text[j] = "\"")
  /\ ~(c = "!" /\ i < Len(text) /\ text[i + 1] = "=")

RECURSIVE Aborts(_, _)
\* scanning text left to right from index i, match after match, reaches an
\* index where only MISMATCH matches
Aborts(text, i) ==
  /\ i <= Len(text)
  /\ \/ OnlyMismatch(text, i)
     \/ Aborts(text, i + token_specification(text, i).len)

\* C20: tokenize() either aborts with the lexical fault and gives no token
\* list, exactly when the scan reaches a character only MISMATCH matches, or
\* gives a list that ends in EOF and has before it no EOF, SKIP, NEWLINE or
\* MISMATCH token and no ID token holding a keyword.
C20_TokenStream ==
  lexer.ran
  => IF Aborts(lexer.text, 1)
     THEN /\ lexer.exc.cls = "SyntaxError"
          /\ lexer.exc.msg = "Unexpected character"
          /\ lexer.tokens = <<>>
     ELSE /\ lexer.exc = NoExc
          /\ lexer.tokens # <<>>
          /\ lexer.tokens[Len(lexer.tokens)] = Token("EOF", StrV(<<>>))
          /\ \A k \in 1..(Len(lexer.tokens) - 1) :
               /\ lexer.tokens[k].type \notin {"EOF", "SKIP", "NEWLINE", "MISMATCH"}
               /\ ~(lexer.tokens[k].type = "ID" /\ lexer.tokens[k].value.s \in keywords)

\* `or` followed by a newline has been tokenized into OR and EOF
W_C20 ==
  /\ lexer.ran
  /\ lexer.text = <<"o", "r", "\n">>
  /\ lexer.tokens = <<Token("OR", StrV(<<"o", "r">>)), Token("EOF", StrV(<<>>))>>

\* the running Session is at a statement whose expression starts with an
\* operand that evaluates and is followed by `and` or `or`
AtAndOr ==
  /\ stack # <<>>
  /\ InRange(Top(stack))
  /\ current(Top(stack)).type # "EOF"
  /\ ExprStart(Top(stack)) >= 0
  /\ LET a == compare_expr([Top(stack) EXCEPT !.pos = ExprStart(Top(stack))], ExprDepth + 2) IN
     /\ a.exc = NoExc
     /\ curtype(a.self) \in {"AND", "OR"}

\* what evaluating the operand to the right of that `and` / `or` gives
RightOperand ==
  LET a == compare_expr([Top(stack) EXCEPT !.pos = ExprStart(Top(stack))], ExprDepth + 2) IN
  compare_expr([a.self EXCEPT !.pos = @ + 1], ExprDepth + 2)

\* C12: the operand to the right of `and` / `or` is evaluated whatever the
\* left operand is, so a fault in it is the fault of the statement;
\* `1 < 2 and 3 > 2` and `1 < 2 or 1 > 2` both give True.
C12_NoShortCircuit ==
  [][/\ (AtAndOr /\ RightOperand.exc # NoExc)
        => (/\ stack' = <<>>
            /\ Reported
            /\ LastError' = RightOperand.exc
            /\ output' = output)
     /\ Ran(<<IndexOf(ProgAndTrue)>>)'
        => (errors' = <<>> /\ output' = <<<<"T", "r", "u", "e">>>>)
     /\ Ran(<<IndexOf(ProgOrTrue)>>)'
        => (errors' = <<>> /\ output' = <<<<"T", "r", "u", "e">>>>)]_vars

\* `print 1 or y;` has faulted on the undeclared y and printed nothing
W_C12 ==
  /\ Ran(<<IndexOf(ProgOrFault)>>)
  /\ Len(errors) = 1
  /\ errors[1].msg = "not declared"
  /\ errors[1].tok.value.s = <<"y">>
  /\ output = <<>>

\* the running Session is at a call `f ( )` of a function of its
\* FunctionTable, and the call stack has room for the callee
CallStarts ==
  /\ At("function_call")
  /\ ~TooDeep(StatementDepth + 3)
  /\ Top(stack).pos + 2 < Len(Top(stack).tokens)
  /\ Top(stack).tokens[Top(stack).pos + 3].type = "RPAREN"
  /\ current(Top(stack)).value.s \in DOMAIN Top(stack).functions

\* the child Session a call of the running Session is to start: the tokens
\* of the Block, the cursor at its start, and the caller's Environment and
\* FunctionTable, nothing else
Callee ==
  [tokens |-> Top(stack).functions[current(Top(stack)).value.s],
   pos |-> 0,
   env |-> Top(stack).env,
   declared_vars |-> DOMAIN Top(stack).env,
   functions |-> Top(stack).functions,
   wait |-> "", cond |-> <<>>, body |-> <<>>]

\* C13: a call starts the Block in a child Session that is made of the Block
\* and of the caller's Environment and FunctionTable only, and leaves the
\* caller's triple as it was; so two calls from the same triple run alike:
\* in `create x = 1; function f() { print x; x = 2; return; } f(); f();`
\* both calls print 1 and return, and so does `f();` in the next unit.
C13_SameSeedSameRun ==
  [][/\ CallStarts
        => (/\ stack' = Append([stack EXCEPT ![Len(stack)] =
                                  [Top(stack) EXCEPT !.pos = @ + 3, !.wait = "call"]],
                               Callee)
            /\ output' = output
            /\ errors' = errors)
     /\ Ran(<<IndexOf(ProgTwice)>>)'
        => (errors' = <<>> /\ output' = <<<<"1">>, <<"1">>>>)
     /\ Ran(<<IndexOf(ProgTwice), IndexOf(ProgCall)>>)'
        => (errors' = <<>> /\ output' = <<<<"1">>, <<"1">>, <<"1">>, <<"3">>>>)]_vars

\* f has been called twice in one unit and once in the next, and printed the
\* same 1 each time
W_C13 ==
  /\ Ran(<<IndexOf(ProgTwice), IndexOf(ProgCall)>>)
  /\ errors = <<>>
  /\ output = <<<<"1">>, <<"1">>, <<"1">>, <<"3">>>>
  /\ env[<<"x">>] = IntV(1)

\* the running Session is at `while ( v ...` with v in its DeclaredSet, and
\* the condition and the body are closed by `)` and `}`
WhileReadsDeclared ==
  /\ At("while_statement")
  /\ Top(stack).pos + 2 < Len(Top(stack).tokens)
  /\ Top(stack).tokens[Top(stack).pos + 2].type = "LPAREN"
  /\ Top(stack).tokens[Top(stack).pos + 3].type = "ID"
  /\ Top(stack).tokens[Top(stack).pos + 3].value.s \in Top(stack).declared_vars
  /\ while_statement(Top(stack), StatementDepth + 1).exc.cls # "SyntaxError"
  /\ while_statement(Top(stack), StatementDepth + 1).exc.cls # "IndexError"

\* C14: a name the parent Session has declared can be read in the condition
\* of a while statement: the statement does not fault NotDeclared.
C14_ConditionReadsParent ==
  [][WhileReadsDeclared => ~(Reported /\ LastError'.msg = "not declared")]_vars

\* C15: `while (1 > 2) { print 1; } print 2;` run from the empty state: the
\* condition is falsy, the body is not run, nothing faults, the triple is
\* unchanged and the print after the loop runs.
C15_FalsyConditionStops ==
  Ran(<<IndexOf(ProgWhileGt)>>)
  => (/\ errors = <<>>
      /\ output = <<<<"2">>>>
      /\ Carried = <<EmptyMap, {}, EmptyMap>>)

\* the Session at depth j is inside the loop of a while statement: its
\* condition was truthy and the body is being executed
InLoop(j) == stack[j].wait = "while"

\* what a check of the condition of the loop of the Session at depth j gives
ConditionCheck(j) ==
  evaluate_with_env(Interpreter(stack[j].cond), stack[j].env, ParseDepth(j) + 3)

\* C16: a Session that is inside the loop of a while statement stays as it
\* is, Environment included, for as long as it exists, so that every check of
\* the condition gives the truthy value the first one gave; the statement
\* never completes: the Session is only ever abandoned, by a fault that
\* reaches the driver or by a ReturnValue that a function call below catches.
C16_TruthyNeverCompletes ==
  [][\A j \in 1..Len(stack) :
       InLoop(j)
       => /\ ConditionCheck(j).exc = NoExc
          /\ Truthy(ConditionCheck(j).val)
          /\ j <= Len(stack') => stack'[j] = stack[j]
          /\ j > Len(stack')
             => \/ (stack' = <<>> /\ Reported)
                \/ (/\ errors' = errors
                    /\ Len(stack') \in Handlers(stack)
                    /\ Len(stack') < j)]_vars

\* `while (1 1) { create w = 1; }` has run, in a unit that the line
\* `create x = 2; print x;` ends: the body was executed once, the exhausted
\* body faulted and the loop was abandoned with nothing stored
W_C16 ==
  /\ Ran(<<IndexOf(ProgWhileBody), IndexOf(ProgCreate)>>)
  /\ Len(errors) = 1
  /\ errors[1].cls = "IndexError"
  /\ env = EmptyMap
  /\ declared_vars = {}

\* the faults of the taxonomy, by exception class and raise statement:
\* LexicalFault and SyntaxFault, UnexpectedStatement, AlreadyDeclared,
\* NotDeclared, UndefinedFunction
InTaxonomy(exc) ==
  \/ exc.cls = "SyntaxError"
     /\ exc.msg \in {"Unexpected character", "Expected", "Unexpected token in term",
                     "Unknown statement"}
  \/ exc.cls = "Exception"
     /\ exc.msg \in {"already declared", "not declared", "not defined"}

\* C17: whatever a unit is, what its parse() hands to the driver is a
\* ReturnValue or a fault of the taxonomy, never an out-of-range token access
\* or another failure.
C17_ClosedTaxonomy ==
  \A k \in 1..Len(errors) : errors[k].cls = "ReturnValue" \/ InTaxonomy(errors[k])

\* the 1-based index of the brace that closes the one at 1-based index lb of
\* tokens, 0 when there is none
Matching(tokens, lb) ==
  LET open(j) == Cardinality({m \in (lb + 1)..(j - 1) : tokens[m].type = "LBRACE"})
      shut(j) == Cardinality({m \in (lb + 1)..(j - 1) : tokens[m].type = "RBRACE"})
      ends == {j \in (lb + 1)..Len(tokens) : tokens[j].type = "RBRACE" /\ open(j) = shut(j)}
  IN IF ends = {} THEN 0 ELSE CHOOSE j \in ends : \A m \in ends : j <= m

\* the 1-based index of the first `{` at or after the cursor of self, 0 when
\* there is none
FirstBrace(self) ==
  LET at == {j \in (self.pos + 1)..Len(self.tokens) : self.tokens[j].type = "LBRACE"} IN
  IF at = {} THEN 0 ELSE CHOOSE j \in at : \A m \in at : j <= m

\* the running Session is at `function f ( ) {` whose brace has a match
DefinesFunction ==
  /\ At("function_definition")
  /\ Top(stack).pos + 4 < Len(Top(stack).tokens)
  /\ Kinds(SubSeq(Top(stack).tokens, Top(stack).pos + 2, Top(stack).pos + 5))
       = <<"ID", "LPAREN", "RPAREN", "LBRACE">>
  /\ Matching(Top(stack).tokens, Top(stack).pos + 5) > 0

\* the running Session is at an if statement with no else whose condition is
\* truthy and whose brace has a match
TakesIf ==
  /\ At("if_statement")
  /\ if_statement(Top(stack), StatementDepth + 1).push # <<>>
  /\ Truthy(expr([Top(stack) EXCEPT !.pos = @ + 2], StatementDepth + 2).val)
  /\ Matching(Top(stack).tokens, FirstBrace(Top(stack))) > 0
  /\ LET m == Matching(Top(stack).tokens, FirstBrace(Top(stack))) IN
     m < Len(Top(stack).tokens) => Top(stack).tokens[m + 1].type # "ELSE"

\* the tokens strictly between the brace at 1-based index lb and its match
Between(tokens, lb) == SubSeq(tokens, lb + 1, Matching(tokens, lb) - 1)

\* C18: the Block of a function definition, and of an if statement, is the
\* token slice strictly between the opening brace and the brace that matches
\* it, and the cursor is then just past the matching brace.
C18_BraceMatchedBlock ==
  [][/\ DefinesFunction
        => LET self == Top(stack) IN
           /\ Len(stack') = Len(stack)
           /\ Top(stack').functions[self.tokens[self.pos + 2].value.s]
                = Between(self.tokens, self.pos + 5)
           /\ Top(stack').pos = Matching(self.tokens, self.pos + 5)
     /\ TakesIf
        => LET self == Top(stack) IN
           /\ Len(stack') = Len(stack) + 1
           /\ Top(stack').tokens = Between(self.tokens, FirstBrace(self))
           /\ stack'[Len(stack)].pos = Matching(self.tokens, FirstBrace(self))]_vars

\* the DeclaredSet of self holds the keys of its Environment, no more, no less
Lockstep(self) == self.declared_vars = DOMAIN self.env

\* the running Session is at `create v = e` with v not declared and e faulting
DeclarationFaults ==
  /\ At("declaration")
  /\ ~Redeclares
  /\ ExprStart(Top(stack)) >= 0
  /\ expr([Top(stack) EXCEPT !.pos = ExprStart(Top(stack))], StatementDepth + 2).exc # NoExc

\* C19: after every step, in the top-level Session, in every Session that
\* executes a Block, and in what the driver carries from unit to unit, a name
\* is in the DeclaredSet exactly when it is a key of the Environment; a
\* declaration whose right-hand side faults adds its name to neither.
C19_Lockstep ==
  [][/\ declared_vars' = DOMAIN env'
     /\ \A j \in 1..Len(stack') : Lockstep(stack'[j])
     /\ DeclarationFaults
        => (/\ Reported
            /\ peek(Top(stack)).value.s \notin declared_vars'
            /\ peek(Top(stack)).value.s \notin DOMAIN env'
            /\ Carried' = Carried)]_vars

\* `create x = y;` run from the empty state has faulted on the undeclared y,
\* and x is in neither the DeclaredSet nor the Environment
W_C19 ==
  /\ Ran(<<IndexOf(ProgCreateBad)>>)
  /\ Len(errors) = 1
  /\ errors[1].tok.value.s = <<"y">>
  /\ declared_vars = {}
  /\ env = EmptyMap

====
